---- MODULE Spec2Model ----
\* A model of custom-algorithms/random-forest/algorithm.py: the class Algorithm,
\* a wrapper that sequences numpy coercion, a StandardScaler and a
\* RandomForestClassifier.  The wrapper's own code (parameter defaulting, the
\* order of the calls in fit / predict / predict_proba, what each call mutates)
\* is translated statement by statement.  The two library objects it owns are
\* modelled by their documented behaviour at the calls the wrapper makes:
\* exact z-score statistics for the scaler, and, for the forest, an ensemble of
\* seeded depth-1 trees that vote (the tree internals are opaque to the
\* wrapper; what matters here is what a fit reads, what it stores, when it
\* raises, and what a prediction depends on).
EXTENDS Integers, Sequences, FiniteSets, TLC

VARIABLES
    alive,    \* alive[i]: Algorithm(params) has been constructed in slot i
    cfg,      \* cfg[i]: the params mapping the constructor was given (history)
    hp,       \* hp[i]: self.n_estimators, self.max_depth, self.min_samples_split, self.random_state
    scaler,   \* scaler[i]: self.scaler, the StandardScaler object
    model,    \* model[i]: self.model, the RandomForestClassifier object
    nfits,    \* nfits[i]: the number of fit calls made so far, failed ones included (history)
    trained,  \* trained[i]: the arguments of the fit call that trained the current model (history)
    last,     \* last[i]: the latest call on the instance and its outcome (history)
    seen,     \* seen[i][t]: first successful predict output on test input t since the last fit call (history)
    actor     \* the instance the latest call was made on (history)

vars == <<alive, cfg, hp, scaler, model, nfits, trained, last, seen, actor>>

\* ---------------------------------------------------------------- bounds

\* fit calls per instance in the one-instance specification
MaxFits == 2
\* fit calls per instance in the two-instance specification
MaxFitsPair == 1

Inst == {1, 2}

\* Python's None, for an option or an attribute that holds an integer otherwise
None == -1

\* ----------------------------------------------- defaults of the constructor

DefaultNEstimators == 100
DefaultMinSamplesSplit == 2
DefaultRandomState == 42

\* ------------------------------------------------------------ input values

\* A Python value handed to np.array: a list of equal-length numeric rows
\* ("list2d", data row-major), a flat numeric list ("list1d"), or a list of
\* rows of different lengths ("ragged").
Py2d(nrows, ncols, data) == [py |-> "list2d", nrows |-> nrows, ncols |-> ncols, data |-> data]
Py1d(data) == [py |-> "list1d", nrows |-> Len(data), ncols |-> 0, data |-> data]
PyRagged == [py |-> "ragged", nrows |-> 2, ncols |-> 0, data |-> <<0, 1, 2>>]

XA == Py2d(2, 2, <<0, 0, 2, 1>>)
XB == Py2d(3, 2, <<1, 2, 1, 0, 4, 1>>)
XC == Py2d(2, 1, <<0, 3>>)
XT == Py2d(3, 2, <<2, 0, 0, 2, 1, 1>>)
XV == Py1d(<<1, 2>>)

\* label vectors: class identifiers are 3 and 7
YA == Py1d(<<3, 7>>)
YB == Py1d(<<7, 7, 3>>)

\* the source of seeds when random_state is None (the global numpy generator)
Entropy == {0, 1}

\* configuration mappings (params.json); "verbose" is a key the code never reads
NoParams == [k \in {} |-> 0]
Configs ==
    { NoParams,
      [n_estimators |-> 3, random_state |-> 0],
      [n_estimators |-> 1, max_depth |-> 1, min_samples_split |-> 3, random_state |-> 1],
      [max_depth |-> None, verbose |-> 1],
      [n_estimators |-> 0, min_samples_split |-> 2] }
ConfigsPair ==
    { [n_estimators |-> 1, random_state |-> 0],
      [n_estimators |-> 1, random_state |-> 0, verbose |-> 1] }

TrainXs == {XA, XB, XC, XV, PyRagged}
TrainYs == {YA, YB}
TestXs == {XA, XT, XC, XV, PyRagged}

TrainXsPair == {XA, XV}
TrainYsPair == {YA, YB}
TestXsPair == {XT}

\* ------------------------------------------------------------------ numpy

\* np.array(X): an ndarray, or ValueError for rows of different lengths
NpArray(X) ==
    IF X.py = "ragged"
    THEN [ok |-> FALSE, err |-> "ValueError", ndim |-> 0, nrows |-> 0, ncols |-> 0, data |-> <<>>]
    ELSE [ok |-> TRUE, err |-> "", ndim |-> IF X.py = "list2d" THEN 2 ELSE 1,
          nrows |-> X.nrows, ncols |-> X.ncols, data |-> X.data]

At(a, r, c) == a.data[(r - 1) * a.ncols + c]

RECURSIVE SumSeq(_)
SumSeq(s) == IF s = <<>> THEN 0 ELSE s[1] + SumSeq(Tail(s))

Column(a, c) == [r \in 1..a.nrows |-> At(a, r, c)]

\* --------------------------------------------------------- StandardScaler

UnfitScaler == [fitted |-> FALSE, nfeat |-> 0, n |-> 0, sum |-> <<>>, den2 |-> <<>>, by |-> 0]

\* sklearn's check_array as the scaler applies it: a 2-D array with at least
\* one sample and one feature
ValidMatrix(a) == a.ndim = 2 /\ a.nrows >= 1 /\ a.ncols >= 1

\* The statistics of column c, kept exact: with n samples, sum S and sum of
\* squares Q, mean = S/n and var = (n*Q - S*S)/n^2, so the standardized value
\* of x is (n*x - S)/sqrt(n*Q - S*S).  A zero variance is replaced by scale 1,
\* which gives (n*x - S)/sqrt(n*n).
ColumnDen2(a, c) ==
    LET col == Column(a, c)
        S == SumSeq(col)
        Q == SumSeq([r \in 1..a.nrows |-> col[r] * col[r]])
        D == a.nrows * Q - S * S
    IN IF D = 0 THEN a.nrows * a.nrows ELSE D

\* StandardScaler.fit(a): _reset() first, then validation, then the statistics.
\* call is the ordinal of the wrapper's fit call (history).
ScalerFit(a, call) ==
    IF ~ValidMatrix(a)
    THEN [ok |-> FALSE, err |-> "ValueError", scaler |-> UnfitScaler]
    ELSE [ok |-> TRUE, err |-> "",
          scaler |-> [fitted |-> TRUE, nfeat |-> a.ncols, n |-> a.nrows,
                      sum |-> [c \in 1..a.ncols |-> SumSeq(Column(a, c))],
                      den2 |-> [c \in 1..a.ncols |-> ColumnDen2(a, c)],
                      by |-> call]]

\* StandardScaler.transform(a): a standardized value is the pair <<P, D>>
\* standing for P/sqrt(D)
ScalerTransform(s, a) ==
    IF ~s.fitted
    THEN [ok |-> FALSE, err |-> "NotFittedError", nrows |-> 0, ncols |-> 0, z |-> <<>>]
    ELSE IF ~ValidMatrix(a) \/ a.ncols # s.nfeat
    THEN [ok |-> FALSE, err |-> "ValueError", nrows |-> 0, ncols |-> 0, z |-> <<>>]
    ELSE [ok |-> TRUE, err |-> "", nrows |-> a.nrows, ncols |-> a.ncols,
          z |-> [r \in 1..a.nrows |->
                  [c \in 1..a.ncols |-> <<s.n * At(a, r, c) - s.sum[c], s.den2[c]>>]]]

\* P1/sqrt(D1) <= P2/sqrt(D2), decided in integers
SignedSquare(p) == IF p < 0 THEN 0 - p * p ELSE p * p
ZLeq(u, v) == SignedSquare(u[1]) * v[2] <= SignedSquare(v[1]) * u[2]

\* ------------------------------------------------- RandomForestClassifier

\* RandomForestClassifier(n_estimators=..., max_depth=..., min_samples_split=...,
\* random_state=..., n_jobs=-1): the constructor stores its arguments unchecked
UnfitModel(params) ==
    [fitted |-> FALSE, params |-> params, nfeat |-> 0, classes |-> {},
     trees |-> <<>>, by |-> 0]

\* the parameter constraints sklearn checks at the start of fit
ValidParams(p) ==
    /\ p.n_estimators >= 1
    /\ p.max_depth = None \/ p.max_depth >= 1
    /\ p.min_samples_split >= 2
    /\ p.random_state = None \/ p.random_state >= 0

\* an integer random_state seeds the trees; None draws the seed from the
\* global generator
SeedOf(p, e) == IF p.random_state = None THEN e ELSE p.random_state

Classes(y) == {y[r] : r \in 1..Len(y)}

CountIn(y, rows, c) == Cardinality({r \in rows : y[r] = c})

\* the most frequent class among rows, the smallest class on a tie
Majority(y, rows) ==
    CHOOSE c \in {y[r] : r \in rows} :
        \A d \in {y[r] : r \in rows} :
            \/ CountIn(y, rows, c) > CountIn(y, rows, d)
            \/ CountIn(y, rows, c) = CountIn(y, rows, d) /\ c <= d

\* Tree k of the ensemble splits on the feature its seed picks
TreeFeature(seed, k, nfeat) == ((seed + k) % nfeat) + 1

\* The tree grown on feature f of the standardized training rows z with
\* labels y: it splits the rows at the midpoint of the feature's range unless
\* the node has fewer than min_samples_split samples, is pure, or the feature
\* is constant; each leaf answers the majority class of its rows.
GrowTree(p, z, y, f) ==
    LET rows == 1..Len(y)
        lo == z[CHOOSE r \in rows : \A q \in rows : ZLeq(z[r][f], z[q][f])][f]
        hi == z[CHOOSE r \in rows : \A q \in rows : ZLeq(z[q][f], z[r][f])][f]
        thr == <<lo[1] + hi[1], 4 * lo[2]>>
        left == {r \in rows : ZLeq(z[r][f], thr)}
    IN IF \/ Len(y) < p.min_samples_split
          \/ Cardinality(Classes(y)) = 1
          \/ ZLeq(hi, lo)
       THEN [leaf |-> TRUE, thr |-> <<0, 1>>, below |-> Majority(y, rows), above |-> Majority(y, rows)]
       ELSE [leaf |-> FALSE, thr |-> thr, below |-> Majority(y, left),
             above |-> Majority(y, rows \ left)]

\* RandomForestClassifier.fit(Z, y): parameter validation, then the check that
\* Z and y have the same number of samples, then training.  A failed fit
\* leaves the estimator as it was.  The estimators are kept grouped by split
\* feature: trees[f] is the tree on feature f and the number of the
\* n_estimators trees that are that tree.
ForestFit(m, Z, y, e, call) ==
    IF ~ValidParams(m.params)
    THEN [ok |-> FALSE, err |-> "InvalidParameterError", model |-> m]
    ELSE IF y.ndim # 1 \/ y.nrows # Z.nrows
    THEN [ok |-> FALSE, err |-> "ValueError", model |-> m]
    ELSE [ok |-> TRUE, err |-> "",
          model |-> [fitted |-> TRUE, params |-> m.params, nfeat |-> Z.ncols,
                     classes |-> Classes(y.data),
                     trees |-> [f \in 1..Z.ncols |->
                                 [count |-> Cardinality({k \in 1..m.params.n_estimators :
                                               TreeFeature(SeedOf(m.params, e), k, Z.ncols) = f}),
                                  tree |-> GrowTree(m.params, Z.z, y.data, f)]],
                     by |-> call]]

\* the label tree t on feature f gives a standardized row
TreeLabel(t, f, zrow) ==
    IF t.leaf \/ ZLeq(zrow[f], t.thr) THEN t.below ELSE t.above

\* the number of trees voting for class c
Votes(m, zrow, c) ==
    SumSeq([f \in 1..m.nfeat |->
              IF TreeLabel(m.trees[f].tree, f, zrow) = c THEN m.trees[f].count ELSE 0])

\* the class with the most votes, the first class in sorted order on a tie
ForestLabel(m, zrow) ==
    CHOOSE c \in m.classes :
        \A d \in m.classes :
            \/ Votes(m, zrow, c) > Votes(m, zrow, d)
            \/ Votes(m, zrow, c) = Votes(m, zrow, d) /\ c <= d

RECURSIVE SortedSeq(_)
SortedSeq(S) ==
    IF S = {} THEN <<>>
    ELSE LET lo == CHOOSE c \in S : \A d \in S : c <= d
         IN <<lo>> \o SortedSeq(S \ {lo})

\* RandomForestClassifier.predict(Z): one label per row of Z, in row order
ForestPredict(m, Z) ==
    IF ~m.fitted
    THEN [ok |-> FALSE, err |-> "NotFittedError", labels |-> <<>>]
    ELSE IF Z.ncols # m.nfeat
    THEN [ok |-> FALSE, err |-> "ValueError", labels |-> <<>>]
    ELSE [ok |-> TRUE, err |-> "", labels |-> [r \in 1..Z.nrows |-> ForestLabel(m, Z.z[r])]]

\* RandomForestClassifier.predict_proba(Z): per row, the share of the trees
\* voting for each class, in sorted class order (kept as vote counts out of
\* n_estimators)
ForestPredictProba(m, Z) ==
    IF ~m.fitted
    THEN [ok |-> FALSE, err |-> "NotFittedError", proba |-> <<>>]
    ELSE IF Z.ncols # m.nfeat
    THEN [ok |-> FALSE, err |-> "ValueError", proba |-> <<>>]
    ELSE [ok |-> TRUE, err |-> "",
          proba |-> [r \in 1..Z.nrows |->
                      LET cs == SortedSeq(m.classes)
                      IN [j \in 1..Len(cs) |-> Votes(m, Z.z[r], cs[j])]]]

\* ------------------------------------------------------- class Algorithm

\* params.get(key) or default: a present 0 is taken for a missing key
GetOrDefault(params, key, default) ==
    IF key \in DOMAIN params /\ params[key] # 0 THEN params[key] ELSE default

\* dict.get(key, default)
Get(params, key, default) == IF key \in DOMAIN params THEN params[key] ELSE default

\* __init__: the four attributes read from params
Resolve(params) ==
    [n_estimators |-> Get(params, "n_estimators", DefaultNEstimators),
     max_depth |-> Get(params, "max_depth", None),
     min_samples_split |-> Get(params, "min_samples_split", DefaultMinSamplesSplit),
     random_state |-> Get(params, "random_state", DefaultRandomState)]

\* the forest built without random_state=self.random_state
NewModelUnseeded(h) ==
    UnfitModel([n_estimators |-> h.n_estimators, max_depth |-> h.max_depth,
                min_samples_split |-> h.min_samples_split, random_state |-> None])

\* __init__: self.model = RandomForestClassifier(...) built from the attributes
NewModel(h) ==
    UnfitModel([n_estimators |-> h.n_estimators, max_depth |-> h.max_depth,
                min_samples_split |-> h.min_samples_split,
                random_state |-> h.random_state])

\* scaler held as an attribute of the class: every instance sees the assignment
SetScalerShared(i, s) == [j \in Inst |-> s]

\* self.scaler is an attribute of the instance: assigning it touches one instance
SetScaler(i, s) == [scaler EXCEPT ![i] = s]

\* fit that starts from a fresh forest: a failure leaves the instance untrained
FitResultRebuild(s, m, X, y, e, call) ==
    LET a == NpArray(X)
        b == NpArray(y)
        fresh == UnfitModel(m.params)
    IN IF ~a.ok \/ ~b.ok
       THEN [ok |-> FALSE, err |-> "ValueError", scaler |-> s, model |-> fresh]
       ELSE LET sf == ScalerFit(a, call)
            IN IF ~sf.ok
               THEN [ok |-> FALSE, err |-> sf.err, scaler |-> sf.scaler, model |-> fresh]
               ELSE LET mf == ForestFit(fresh, ScalerTransform(sf.scaler, a), b, e, call)
                    IN [ok |-> mf.ok, err |-> mf.err, scaler |-> sf.scaler, model |-> mf.model]

\* fit(X, y) on an instance holding scaler s and model m: whether it returned
\* or raised, and the two objects as the call leaves them.  The steps after
\* model.fit (score on the training set, the printed report) read the model
\* just trained on the array just validated and change nothing.
FitResult(s, m, X, y, e, call) ==
    LET a == NpArray(X)
        b == NpArray(y)
    IN IF ~a.ok \/ ~b.ok
       THEN [ok |-> FALSE, err |-> "ValueError", scaler |-> s, model |-> m]
       ELSE LET sf == ScalerFit(a, call)
            IN IF ~sf.ok
               THEN [ok |-> FALSE, err |-> sf.err, scaler |-> sf.scaler, model |-> m]
               ELSE LET mf == ForestFit(m, ScalerTransform(sf.scaler, a), b, e, call)
                    IN [ok |-> mf.ok, err |-> mf.err, scaler |-> sf.scaler, model |-> mf.model]

\* predict that swallows the library's errors and answers an empty vector
PredictResultSwallow(s, m, X) ==
    LET a == NpArray(X)
        Z == ScalerTransform(s, a)
        r == ForestPredict(m, Z)
    IN IF a.ok /\ Z.ok /\ r.ok
       THEN [ok |-> TRUE, err |-> "", labels |-> r.labels, scaler |-> s, model |-> m]
       ELSE [ok |-> TRUE, err |-> "", labels |-> <<>>, scaler |-> s, model |-> m]

\* predict that calls scaler.fit_transform(X) where the code calls transform(X)
PredictResultRefit(s, m, X) ==
    LET a == NpArray(X)
    IN IF ~a.ok
       THEN [ok |-> FALSE, err |-> a.err, labels |-> <<>>, scaler |-> s, model |-> m]
       ELSE LET sf == ScalerFit(a, s.by)
            IN IF ~sf.ok
               THEN [ok |-> FALSE, err |-> sf.err, labels |-> <<>>, scaler |-> sf.scaler, model |-> m]
               ELSE LET r == ForestPredict(m, ScalerTransform(sf.scaler, a))
                    IN [ok |-> r.ok, err |-> r.err, labels |-> r.labels,
                        scaler |-> sf.scaler, model |-> m]

\* predict that returns np.unique(predictions), the labels of its report line
PredictResultUnique(s, m, X) ==
    LET a == NpArray(X)
    IN IF ~a.ok
       THEN [ok |-> FALSE, err |-> a.err, labels |-> <<>>, scaler |-> s, model |-> m]
       ELSE LET Z == ScalerTransform(s, a)
            IN IF ~Z.ok
               THEN [ok |-> FALSE, err |-> Z.err, labels |-> <<>>, scaler |-> s, model |-> m]
               ELSE LET r == ForestPredict(m, Z)
                    IN [ok |-> r.ok, err |-> r.err,
                        labels |-> SortedSeq(Classes(r.labels)), scaler |-> s, model |-> m]

\* predict that returns the position of each label among the classes
PredictResultIndex(s, m, X) ==
    LET a == NpArray(X)
    IN IF ~a.ok
       THEN [ok |-> FALSE, err |-> a.err, labels |-> <<>>, scaler |-> s, model |-> m]
       ELSE LET Z == ScalerTransform(s, a)
            IN IF ~Z.ok
               THEN [ok |-> FALSE, err |-> Z.err, labels |-> <<>>, scaler |-> s, model |-> m]
               ELSE LET r == ForestPredict(m, Z)
                    IN [ok |-> r.ok, err |-> r.err,
                        labels |-> [q \in 1..Len(r.labels) |->
                                      Cardinality({c \in m.classes : c < r.labels[q]})],
                        scaler |-> s, model |-> m]

\* predict(X): the labels returned, or the error raised, and the two objects
\* as the call leaves them
PredictResult(s, m, X) ==
    LET a == NpArray(X)
    IN IF ~a.ok
       THEN [ok |-> FALSE, err |-> a.err, labels |-> <<>>, scaler |-> s, model |-> m]
       ELSE LET Z == ScalerTransform(s, a)
            IN IF ~Z.ok
               THEN [ok |-> FALSE, err |-> Z.err, labels |-> <<>>, scaler |-> s, model |-> m]
               ELSE LET r == ForestPredict(m, Z)
                    IN [ok |-> r.ok, err |-> r.err, labels |-> r.labels, scaler |-> s, model |-> m]

\* predict_proba(X)
PredictProbaResult(s, m, X) ==
    LET a == NpArray(X)
    IN IF ~a.ok
       THEN [ok |-> FALSE, err |-> a.err, proba |-> <<>>, scaler |-> s, model |-> m]
       ELSE LET Z == ScalerTransform(s, a)
            IN IF ~Z.ok
               THEN [ok |-> FALSE, err |-> Z.err, proba |-> <<>>, scaler |-> s, model |-> m]
               ELSE LET r == ForestPredictProba(m, Z)
                    IN [ok |-> r.ok, err |-> r.err, proba |-> r.proba, scaler |-> s, model |-> m]

\* ------------------------------------------------------------ the system

NoCall == [op |-> "none", X |-> Py1d(<<>>), ok |-> TRUE, err |-> "", labels |-> <<>>, proba |-> <<>>]
NoArgs == [X |-> Py1d(<<>>), y |-> Py1d(<<>>)]
NotSeen == [t \in TestXs |-> [n |-> 0, labels |-> <<>>]]

Init ==
    /\ alive = [i \in Inst |-> FALSE]
    /\ cfg = [i \in Inst |-> NoParams]
    /\ hp = [i \in Inst |-> Resolve(NoParams)]
    /\ scaler = [i \in Inst |-> UnfitScaler]
    /\ model = [i \in Inst |-> NewModel(Resolve(NoParams))]
    /\ nfits = [i \in Inst |-> 0]
    /\ trained = [i \in Inst |-> NoArgs]
    /\ last = [i \in Inst |-> NoCall]
    /\ seen = [i \in Inst |-> NotSeen]
    /\ actor = 0

\* Algorithm(params)
Construct(i, params) ==
    /\ ~alive[i]
    /\ alive' = [alive EXCEPT ![i] = TRUE]
    /\ cfg' = [cfg EXCEPT ![i] = params]
    /\ hp' = [hp EXCEPT ![i] = Resolve(params)]
    /\ scaler' = SetScaler(i, UnfitScaler)
    /\ model' = [model EXCEPT ![i] = NewModel(Resolve(params))]
    /\ actor' = i
    /\ UNCHANGED <<nfits, trained, last, seen>>

\* instance.fit(X, y); e is what the global generator would yield
Fit(i, X, y, e) ==
    /\ alive[i]
    /\ LET res == FitResult(scaler[i], model[i], X, y, e, nfits[i] + 1)
       IN /\ scaler' = SetScaler(i, res.scaler)
          /\ model' = [model EXCEPT ![i] = res.model]
          /\ last' = [last EXCEPT ![i] =
                        [op |-> "fit", X |-> X, ok |-> res.ok, err |-> res.err,
                         labels |-> <<>>, proba |-> <<>>]]
          /\ trained' = [trained EXCEPT ![i] =
                           IF res.ok THEN [X |-> X, y |-> y] ELSE @]
    /\ nfits' = [nfits EXCEPT ![i] = @ + 1]
    /\ seen' = [seen EXCEPT ![i] = NotSeen]
    /\ actor' = i
    /\ UNCHANGED <<alive, cfg, hp>>

\* instance.predict(X)
Predict(i, X) ==
    /\ alive[i]
    /\ LET res == PredictResult(scaler[i], model[i], X)
       IN /\ scaler' = SetScaler(i, res.scaler)
          /\ model' = [model EXCEPT ![i] = res.model]
          /\ last' = [last EXCEPT ![i] =
                        [op |-> "predict", X |-> X, ok |-> res.ok, err |-> res.err,
                         labels |-> res.labels, proba |-> <<>>]]
          /\ seen' = [seen EXCEPT ![i][X] =
                        IF ~res.ok THEN @
                        ELSE IF @.n = 0 THEN [n |-> 1, labels |-> res.labels]
                        ELSE [n |-> 2, labels |-> @.labels]]
    /\ actor' = i
    /\ UNCHANGED <<alive, cfg, hp, nfits, trained>>

\* instance.predict_proba(X)
PredictProba(i, X) ==
    /\ alive[i]
    /\ LET res == PredictProbaResult(scaler[i], model[i], X)
       IN /\ scaler' = SetScaler(i, res.scaler)
          /\ model' = [model EXCEPT ![i] = res.model]
          /\ last' = [last EXCEPT ![i] =
                        [op |-> "predict_proba", X |-> X, ok |-> res.ok, err |-> res.err,
                         labels |-> <<>>, proba |-> res.proba]]
    /\ actor' = i
    /\ UNCHANGED <<alive, cfg, hp, nfits, trained, seen>>

\* one instance, the full sets of inputs
Next ==
    \/ \E p \in Configs : Construct(1, p)
    \/ \E X \in TrainXs, y \in TrainYs, e \in Entropy :
          nfits[1] < MaxFits /\ Fit(1, X, y, e)
    \/ \E X \in TestXs : Predict(1, X)
    \/ \E X \in TestXs : PredictProba(1, X)

Spec == Init /\ [][Next]_vars

\* two instances, calls interleaved
NextPair ==
    \/ \E i \in Inst, p \in ConfigsPair : Construct(i, p)
    \/ \E i \in Inst, X \in TrainXsPair, y \in TrainYsPair, e \in Entropy :
          nfits[i] < MaxFitsPair /\ Fit(i, X, y, e)
    \/ \E i \in Inst, X \in TestXsPair : Predict(i, X)
    \/ \E i \in Inst, X \in TestXsPair : PredictProba(i, X)

SpecPair == Init /\ [][NextPair]_vars

\* ------------------------------------------------------------ properties

PredOps == {"predict", "predict_proba"}

\* row r of the list X, as a one-row list
RowOf(X, r) == Py2d(1, X.ncols, [c \in 1..X.ncols |-> X.data[(r - 1) * X.ncols + c]])

\* C1: on an instance on which no fit call has been made, every predict and
\* predict_proba call raises and returns no result, whatever the input and
\* whatever calls came before.
C1_PredictBeforeFitRaises ==
    \A i \in Inst :
        (alive[i] /\ nfits[i] = 0 /\ last[i].op \in PredOps)
            => (~last[i].ok /\ last[i].labels = <<>> /\ last[i].proba = <<>>)

C1_Witness ==
    alive[1] /\ nfits[1] = 0 /\ last[1].op = "predict" /\ last[1].X = XT
        /\ last[1].err = "NotFittedError"

\* C2: fit is all-or-nothing: a fit call that raises leaves the scaler
\* statistics and the trained model exactly as they were before the call.
C2_FailedFitChangesNothing ==
    [][\A i \in Inst :
          (nfits'[i] = nfits[i] + 1 /\ ~last'[i].ok)
              => (scaler'[i] = scaler[i] /\ model'[i] = model[i])]_vars

\* C3 as stated: once the instance is fit, no later call (a second fit
\* included) replaces the scaler statistics or the trained model.
C3_FittedStateNeverReplaced ==
    [][\A i \in Inst :
          (scaler[i].fitted /\ model[i].fitted)
              => (scaler'[i] = scaler[i] /\ model'[i] = model[i])]_vars

\* C3 as amended: the trained model only moves unfit -> fit and never back;
\* predict and predict_proba never replace the scaler statistics or the
\* model; every fit call that returns, the first or a later one, leaves the
\* scaler statistics and the model that this call computed.
C3_FitReplacesPredictKeeps ==
    [][\A i \in Inst :
          /\ model[i].fitted => model'[i].fitted
          /\ (nfits'[i] = nfits[i] /\ alive[i])
                => (scaler'[i] = scaler[i] /\ model'[i] = model[i])
          /\ (nfits'[i] = nfits[i] + 1 /\ last'[i].ok)
                => /\ scaler'[i].fitted /\ scaler'[i].by = nfits'[i]
                   /\ model'[i].fitted /\ model'[i].by = nfits'[i]]_vars

C3_Witness ==
    nfits[1] = 2 /\ last[1].op = "predict" /\ last[1].ok
        /\ scaler[1].by = 2 /\ model[1].by = 2 /\ trained[1] = [X |-> XB, y |-> YB]

\* C4: the constructor resolves each of the four options on its own: a key
\* that is present keeps its value, an absent key resolves to its default
\* (100, None, 2, 42), and no other key has any effect on the result.
C4_DefaultsResolved ==
    \A i \in Inst :
        alive[i] =>
            LET given(k) == k \in DOMAIN cfg[i]
                want == [n_estimators |-> IF given("n_estimators") THEN cfg[i]["n_estimators"] ELSE 100,
                         max_depth |-> IF given("max_depth") THEN cfg[i]["max_depth"] ELSE None,
                         min_samples_split |-> IF given("min_samples_split") THEN cfg[i]["min_samples_split"] ELSE 2,
                         random_state |-> IF given("random_state") THEN cfg[i]["random_state"] ELSE 42]
            IN hp[i] = want /\ model[i].params = want

C4_Witness ==
    /\ alive[1]
    /\ cfg[1] = [n_estimators |-> 0, min_samples_split |-> 2]
    /\ hp[1] = [n_estimators |-> 0, max_depth |-> None, min_samples_split |-> 2, random_state |-> 42]

\* C5: predict and predict_proba leave the scaler statistics and the trained
\* model unchanged, and a predict call returns the labels that the first
\* predict call on the same input since the latest fit call returned.
C5_PredictRepeatable ==
    [][\A i \in Inst :
          last'[i].op \in PredOps =>
              /\ scaler'[i] = scaler[i]
              /\ model'[i] = model[i]
              /\ (last'[i].op = "predict" /\ last'[i].ok /\ seen[i][last'[i].X].n > 0)
                    => last'[i].labels = seen[i][last'[i].X].labels]_vars

C5_Witness ==
    /\ last[1].op = "predict" /\ last[1].ok /\ last[1].X = XT
    /\ seen[1][XT].n = 2 /\ seen[1][XA].n = 2

\* C6: two instances built with the same hyperparameters (the same
\* random_state among them), each fitted once on the same data, return the
\* same predictions for the same test input.
C6_SameSeedSamePredictions ==
    \A i \in Inst, j \in Inst :
        ( /\ alive[i] /\ alive[j] /\ hp[i] = hp[j]
          /\ nfits[i] = 1 /\ nfits[j] = 1
          /\ model[i].fitted /\ model[j].fitted /\ trained[i] = trained[j]
          /\ last[i].op = "predict" /\ last[j].op = "predict" /\ last[i].X = last[j].X )
            => (last[i].ok = last[j].ok /\ last[i].labels = last[j].labels)

C6_Witness ==
    /\ cfg[1] # cfg[2] /\ hp[1] = hp[2]
    /\ nfits[1] = 1 /\ nfits[2] = 1 /\ model[1].fitted /\ model[2].fitted
    /\ trained[1] = trained[2]
    /\ last[1].op = "predict" /\ last[2].op = "predict"
    /\ last[1].ok /\ last[1].labels = last[2].labels /\ Len(last[1].labels) = 3

\* C7: predict returns exactly one label per input row, the r-th label being
\* the prediction for the r-th row; and when the latest fit call returned,
\* predict does return for every matrix with that fit's column count.
C7_OneLabelPerRowInOrder ==
    \A i \in Inst :
        last[i].op = "predict" =>
            /\ last[i].ok =>
                  /\ Len(last[i].labels) = last[i].X.nrows
                  /\ \A r \in 1..last[i].X.nrows :
                        <<last[i].labels[r]>>
                            = PredictResult(scaler[i], model[i], RowOf(last[i].X, r)).labels
            /\ ( /\ model[i].fitted /\ model[i].by = nfits[i]
                 /\ last[i].X.py = "list2d" /\ last[i].X.ncols = model[i].nfeat )
                  => last[i].ok

C7_Witness ==
    /\ last[1].op = "predict" /\ last[1].ok /\ last[1].X = XT
    /\ trained[1] = [X |-> XA, y |-> YA]
    /\ last[1].labels[1] # last[1].labels[2]

\* C8: a call on one instance leaves every other instance's hyperparameters,
\* scaler statistics, trained model and latest result unchanged.
C8_InstancesIndependent ==
    [][\A i \in Inst :
          actor' # i =>
              /\ alive'[i] = alive[i] /\ hp'[i] = hp[i]
              /\ scaler'[i] = scaler[i] /\ model'[i] = model[i]
              /\ last'[i] = last[i]]_vars

C8_Witness ==
    /\ actor = 2 /\ last[2].op = "fit" /\ ~last[2].ok /\ ~scaler[2].fitted
    /\ model[1].fitted /\ scaler[1].fitted /\ last[1].op = "predict" /\ last[1].ok

\* C9: every label predict returns is one of the class labels of the label
\* vector of the fit call that trained the current model.
C9_LabelsFromTraining ==
    \A i \in Inst :
        (last[i].op = "predict" /\ last[i].ok) =>
            \A r \in 1..Len(last[i].labels) :
                last[i].labels[r] \in Classes(trained[i].y.data)

C9_Witness ==
    /\ last[1].op = "predict" /\ last[1].ok /\ last[1].X = XT
    /\ model[1].fitted /\ scaler[1].by # model[1].by
    /\ Classes(last[1].labels) = {3, 7}

\* C10: whenever predict or predict_proba returns a result, the scaler
\* statistics it applied and the model it delegated to were produced by the
\* same fit call.
C10_ScalerAndModelFromSameFit ==
    \A i \in Inst :
        (last[i].op \in PredOps /\ last[i].ok) => scaler[i].by = model[i].by

====
